---- MODULE Spec2Model ----
(***************************************************************************)
(* NestlyFlow backend: users, bearer tokens, password-reset tokens and     *)
(* per-owner to-do records, as kept by routes/auth.py, routes/todos.py,    *)
(* routes/chatbot.py and crud.py on top of the tables of models.py.        *)
(*                                                                         *)
(* Each request is one action: the handler runs in one database session    *)
(* and commits before it answers.  The answer of the last request is kept  *)
(* in resp.  Primary keys are handed out by the storage engine in          *)
(* increasing order and are not reused; no foreign key is enforced by the  *)
(* engine (models.py declares no ON DELETE rule and the handlers guard     *)
(* against a token whose user is gone, routes/auth.py:274-279).            *)
(***************************************************************************)
EXTENDS Integers, Sequences, FiniteSets, TLC

(* ---------------------------------------------------------------- bounds *)
\* number of user rows ever inserted
MaxUserId == 2
\* number of todo rows ever inserted
MaxTodoId == 3
\* number of password-reset tokens ever generated
MaxResetTokens == 2
\* the clock, in hours, runs from 0 to MaxTime
MaxTime == 2
\* requests in flight between their check and their commit
MaxPending == 2

(* ------------------------------------------------------------- constants *)
\* forgot_password: expires_at = utcnow() + timedelta(hours=1)
RESET_TOKEN_HOURS == 1
\* schemas.TodoBase.title / TodoUpdate.title: Field(max_length=255)
MAX_TITLE_LENGTH == 255

\* Python None, for a text column / for a timestamp column / for a user
None == "<None>"
NoDue == -1
NoUser == 0

(* ---------------------------------------------------------------- titles *)
\* A title is a sequence of characters (one-character strings).
Letters == {"A", "a"}

\* str.lower() / SQL lower() on one character
LowerChar(c) ==
    IF c = "A" THEN "a" ELSE c

\* func.lower(title) / str.lower(): character by character
Lower(t) ==
    [i \in 1..Len(t) |-> LowerChar(t[i])]

\* case-insensitive title comparison, as in the queries of crud.py
EqCI(s, t) ==
    Lower(s) = Lower(t)

DigitChar(d) ==
    CASE d = 0 -> "0" [] d = 1 -> "1" [] d = 2 -> "2" [] d = 3 -> "3"
      [] d = 4 -> "4" [] d = 5 -> "5" [] d = 6 -> "6" [] d = 7 -> "7"
      [] d = 8 -> "8" [] d = 9 -> "9"

\* str(n) for n >= 0, in decimal
RECURSIVE Decimal(_)
Decimal(n) ==
    IF n < 10 THEN <<DigitChar(n)>>
    ELSE Decimal(n \div 10) \o <<DigitChar(n % 10)>>

\* f"{original_title} ({counter})"
Suffixed(title, counter) ==
    title \o <<" ", "(">> \o Decimal(counter) \o <<")">>

\* f"'{t.title}'"
Quoted(title) ==
    <<"'">> \o title \o <<"'">>

(* ----------------------------------------------------------------- state *)
VARIABLES
    users,          \* table users: rows [id, username, email, hashed_password]
    todos,          \* table todos: rows of Todo
    reset_tokens,   \* table password_reset_tokens: rows [token, user_id, expires_at]
    access_tokens,  \* bearer tokens handed out so far: [sub, issued_to]
    next_user_id,   \* next primary key of users
    next_todo_id,   \* next primary key of todos
    next_token,     \* next value of secrets.token_urlsafe (never repeats)
    now,            \* the clock, in hours
    resp,           \* the answer to the last request
    pending,        \* requests that have run their checks and not yet committed
    chat            \* the chat turn in progress

vars ==
    <<users, todos, reset_tokens, access_tokens, next_user_id, next_todo_id,
      next_token, now, resp, pending, chat>>

(* ------------------------------------------------------- request inputs *)
Usernames == {"alice", "bob"}
Emails == {"alice@x.com", "bob@x.com"}
Passwords == {"pw", "pw2"}

\* "@" in s, for the identifiers a client sends
HasAt(s) ==
    s \in {"alice@x.com", "bob@x.com"}

\* a bearer token no signing key of the service produced
InvalidToken == [sub |-> "mallory", issued_to |-> NoUser, valid |-> FALSE]

\* what a client can put in the Authorization header
BearerInputs ==
    {[sub |-> t.sub, issued_to |-> t.issued_to, valid |-> TRUE] : t \in access_tokens}
        \cup {InvalidToken}

\* no chat turn has started
NoTurn ==
    [pc |-> "idle", bearer |-> InvalidToken, current_user |-> {},
     tool_calls |-> <<>>, messages |-> <<>>, model_calls |-> <<>>,
     dispatched |-> <<>>, output |-> [msg |-> "", titles |-> <<>>, data |-> <<>>]]

\* The answer to a request, with the request it answers: the operation, the
\* HTTP status, the user the bearer token resolved to, the id in the path (or
\* the reset token), the body or arguments sent, the rows returned or removed,
\* the fixed part of the message and the titles put into it.  seq tells one
\* request from the next.
Response(op, status, uid, id, arg, data, msg, titles) ==
    [seq |-> 1 - resp.seq, op |-> op, status |-> status, uid |-> uid, id |-> id,
     arg |-> arg, data |-> data, msg |-> msg, titles |-> titles]

(* -------------------------------------------- credential service (auth) *)
\* auth.get_password_hash
get_password_hash(password) ==
    <<"hash", password>>

\* auth.verify_password
verify_password(password, hashed_password) ==
    hashed_password = get_password_hash(password)

\* auth.create_access_token(data={"sub": username}), handed to user uid
create_access_token(username, uid) ==
    [sub |-> username, issued_to |-> uid]

\* auth.decode_access_token: the payload's subject, or nothing
decode_access_token(token) ==
    IF token.valid THEN {token.sub} ELSE {}

\* dependencies.get_current_user: the users the token resolves to (none: 401)
get_current_user(token) ==
    {u \in users : u.username \in decode_access_token(token)}

\* dependencies.get_current_user_optional: the same lookup, no user instead of 401
get_current_user_optional(token) ==
    {u \in users : u.username \in decode_access_token(token)}

\* the rows of a query, in primary-key order
RECURSIVE ById(_)
ById(rows) ==
    IF rows = {} THEN <<>>
    ELSE LET first == CHOOSE r \in rows : \A q \in rows : r.id <= q.id
         IN  <<first>> \o ById(rows \ {first})

(* ------------------------------------------------------------ auth routes *)
\* a request that commits nothing
AnswerOnly(op, status, uid, id, arg, msg) ==
    /\ resp' = Response(op, status, uid, id, arg, <<>>, msg, <<>>)
    /\ UNCHANGED <<pending, chat, users, todos, reset_tokens, access_tokens, next_user_id,
                   next_todo_id, next_token, now>>

\* POST /auth/signup
create_user(username, email, password) ==
    /\ next_user_id <= MaxUserId
    /\ IF \E u \in users : u.email = email
       THEN AnswerOnly("signup", 400, NoUser, 0, <<username, email>>, "Email already registered")
       ELSE IF \E u \in users : u.username = username
       THEN \* db.commit() raises IntegrityError on the unique username
            AnswerOnly("signup", 400, NoUser, 0, <<username, email>>, "Username or email already registered")
       ELSE /\ users' = users \cup
                   {[id |-> next_user_id, username |-> username, email |-> email,
                     hashed_password |-> get_password_hash(password)]}
            /\ next_user_id' = next_user_id + 1
            /\ access_tokens' = access_tokens \cup
                   {create_access_token(username, next_user_id)}
            /\ resp' = Response("signup", 201, next_user_id, 0, <<username, email>>, <<>>, "bearer", <<>>)
            /\ UNCHANGED <<pending, chat, todos, reset_tokens, next_todo_id, next_token, now>>

\* POST /auth/login: identifier is a username or an email
login_for_access_token(identifier, password) ==
    LET found == {u \in users : u.username = identifier \/ u.email = identifier} IN
    IF found = {}
    THEN AnswerOnly("login", 404, NoUser, 0, <<identifier, password>>,
                  IF HasAt(identifier)
                  THEN "Account with that email does not exist"
                  ELSE "Account with that username does not exist")
    ELSE \E user \in found :  \* .first()
         IF ~verify_password(password, user.hashed_password)
         THEN AnswerOnly("login", 401, NoUser, 0, <<identifier, password>>, "Incorrect username or password")
         ELSE /\ access_tokens' = access_tokens \cup
                     {create_access_token(user.username, user.id)}
              /\ resp' = Response("login", 200, user.id, 0, <<identifier, password>>, <<>>, "bearer", <<>>)
              /\ UNCHANGED <<pending, chat, users, todos, reset_tokens, next_user_id,
                             next_todo_id, next_token, now>>

\* PATCH /auth/users/me; username = None when the body leaves it out
update_user_me(bearer, username) ==
    LET me == get_current_user(bearer) IN
    IF me = {}
    THEN AnswerOnly("rename", 401, NoUser, 0, <<>>, "Could not validate credentials")
    ELSE \E current_user \in me :
         IF username # None /\ username # current_user.username
         THEN IF \E u \in users : u.username = username
              THEN AnswerOnly("rename", 400, current_user.id, 0, username, "Username already taken")
              ELSE /\ users' = (users \ {current_user}) \cup
                          {[current_user EXCEPT !.username = username]}
                   /\ access_tokens' = access_tokens \cup
                          {create_access_token(username, current_user.id)}
                   /\ resp' = Response("rename", 200, current_user.id, 0, username, <<>>,
                                       "bearer", <<>>)
                   /\ UNCHANGED <<pending, chat, todos, reset_tokens, next_user_id, next_todo_id,
                                  next_token, now>>
         ELSE /\ access_tokens' = access_tokens \cup
                     {create_access_token(current_user.username, current_user.id)}
              /\ resp' = Response("rename", 200, current_user.id, 0, username, <<>>,
                                  "bearer", <<>>)
              /\ UNCHANGED <<pending, chat, users, todos, reset_tokens, next_user_id,
                             next_todo_id, next_token, now>>

\* POST /auth/users/me/reset-password
reset_password(bearer, current_password, new_password) ==
    LET me == get_current_user(bearer) IN
    IF me = {}
    THEN AnswerOnly("change_password", 401, NoUser, 0, <<>>, "Could not validate credentials")
    ELSE \E current_user \in me :
         IF ~verify_password(current_password, current_user.hashed_password)
         THEN AnswerOnly("change_password", 400, current_user.id, 0, <<>>,
                       "Incorrect current password")
         ELSE /\ users' = (users \ {current_user}) \cup
                     {[current_user EXCEPT
                          !.hashed_password = get_password_hash(new_password)]}
              /\ resp' = Response("change_password", 204, current_user.id, 0, <<>>, <<>>,
                                  "", <<>>)
              /\ UNCHANGED <<pending, chat, todos, reset_tokens, access_tokens, next_user_id,
                             next_todo_id, next_token, now>>

\* account deletion that leaves the owned todos in place
delete_user_me_no_cascade(bearer, password) ==
    LET me == get_current_user(bearer) IN
    IF me = {}
    THEN AnswerOnly("delete_user", 401, NoUser, 0, <<>>, "Could not validate credentials")
    ELSE \E current_user \in me :
         IF ~verify_password(password, current_user.hashed_password)
         THEN AnswerOnly("delete_user", 401, current_user.id, 0, password,
                         "Incorrect password")
         ELSE /\ users' = users \ {current_user}
              /\ resp' = Response("delete_user", 204, current_user.id, 0, password,
                                  ById({t \in todos : t.owner_id = current_user.id}),
                                  "", <<>>)
              /\ UNCHANGED <<pending, chat, todos, reset_tokens, access_tokens, next_user_id,
                             next_todo_id, next_token, now>>

\* DELETE /auth/users/me
delete_user_me(bearer, password) ==
    LET me == get_current_user(bearer) IN
    IF me = {}
    THEN AnswerOnly("delete_user", 401, NoUser, 0, <<>>, "Could not validate credentials")
    ELSE \E current_user \in me :
         IF ~verify_password(password, current_user.hashed_password)
         THEN AnswerOnly("delete_user", 401, current_user.id, 0, password, "Incorrect password")
         ELSE \* the owned todos are deleted, then the user; the rows of
              \* password_reset_tokens are not touched
              /\ todos' = {t \in todos : t.owner_id # current_user.id}
              /\ users' = users \ {current_user}
              /\ resp' = Response("delete_user", 204, current_user.id, 0, password,
                                  ById({t \in todos : t.owner_id = current_user.id}),
                                  "", <<>>)
              /\ UNCHANGED <<pending, chat, reset_tokens, access_tokens, next_user_id,
                             next_todo_id, next_token, now>>

\* POST /auth/forgot-password
forgot_password(email) ==
    LET found == {u \in users : u.email = email} IN
    IF found = {}
    THEN AnswerOnly("forgot", 200, NoUser, 0, email,
                  "If your email is registered, a password reset link has been sent.")
    ELSE \E user \in found :
         /\ next_token <= MaxResetTokens
         /\ reset_tokens' = reset_tokens \cup
                {[token |-> next_token, user_id |-> user.id,
                  expires_at |-> now + RESET_TOKEN_HOURS]}
         /\ next_token' = next_token + 1
         /\ resp' = Response("forgot", 200, NoUser, 0, email, <<>>,
                "If your email is registered, a password reset link has been sent.",
                <<>>)
         /\ UNCHANGED <<pending, chat, users, todos, access_tokens, next_user_id, next_todo_id, now>>

\* reset-confirm that changes the password and keeps the token
reset_password_confirm_keeps_token(token, new_password) ==
    LET found == {r \in reset_tokens : r.token = token} IN
    IF found = {}
    THEN AnswerOnly("reset_confirm", 400, NoUser, token, new_password,
                    "Invalid or expired token")
    ELSE \E reset_token \in found :
         IF reset_token.expires_at < now
         THEN /\ reset_tokens' = reset_tokens \ {reset_token}
              /\ resp' = Response("reset_confirm", 400, NoUser, token, new_password,
                                  <<reset_token>>, "Invalid or expired token", <<>>)
              /\ UNCHANGED <<pending, chat, users, todos, access_tokens, next_user_id,
                             next_todo_id, next_token, now>>
         ELSE \E user \in {u \in users : u.id = reset_token.user_id} :
              /\ users' = (users \ {user}) \cup
                     {[user EXCEPT !.hashed_password = get_password_hash(new_password)]}
              /\ resp' = Response("reset_confirm", 204, user.id, token,
                                  new_password, <<>>, "", <<>>)
              /\ UNCHANGED <<pending, chat, todos, reset_tokens, access_tokens, next_user_id,
                             next_todo_id, next_token, now>>

\* reset-confirm that never looks at expires_at
reset_password_confirm_no_expiry(token, new_password) ==
    LET found == {r \in reset_tokens : r.token = token} IN
    IF found = {}
    THEN AnswerOnly("reset_confirm", 400, NoUser, token, new_password,
                    "Invalid or expired token")
    ELSE \E reset_token \in found :
         LET owner == {u \in users : u.id = reset_token.user_id} IN
         IF owner = {}
         THEN AnswerOnly("reset_confirm", 400, NoUser, token, new_password,
                         "User not found")
         ELSE \E user \in owner :
              /\ users' = (users \ {user}) \cup
                     {[user EXCEPT !.hashed_password = get_password_hash(new_password)]}
              /\ reset_tokens' = reset_tokens \ {reset_token}
              /\ resp' = Response("reset_confirm", 204, user.id, token,
                                  new_password, <<reset_token>>, "", <<>>)
              /\ UNCHANGED <<pending, chat, todos, access_tokens, next_user_id, next_todo_id,
                             next_token, now>>

\* POST /auth/reset-password?token=...
reset_password_confirm(token, new_password) ==
    LET found == {r \in reset_tokens : r.token = token} IN
    IF found = {}
    THEN AnswerOnly("reset_confirm", 400, NoUser, token, new_password, "Invalid or expired token")
    ELSE \E reset_token \in found :
         IF reset_token.expires_at < now
         THEN /\ reset_tokens' = reset_tokens \ {reset_token}
              /\ resp' = Response("reset_confirm", 400, NoUser, token, new_password,
                                  <<reset_token>>, "Invalid or expired token", <<>>)
              /\ UNCHANGED <<pending, chat, users, todos, access_tokens, next_user_id,
                             next_todo_id, next_token, now>>
         ELSE LET owner == {u \in users : u.id = reset_token.user_id} IN
              IF owner = {}
              THEN AnswerOnly("reset_confirm", 400, NoUser, token, new_password, "User not found")
              ELSE \E user \in owner :
                   /\ users' = (users \ {user}) \cup
                          {[user EXCEPT
                               !.hashed_password = get_password_hash(new_password)]}
                   /\ reset_tokens' = reset_tokens \ {reset_token}
                   /\ resp' = Response("reset_confirm", 204, user.id, token,
                                       new_password, <<reset_token>>, "", <<>>)
                   /\ UNCHANGED <<pending, chat, todos, access_tokens, next_user_id, next_todo_id,
                                  next_token, now>>

\* time passes
Tick ==
    /\ now < MaxTime
    /\ now' = now + 1
    /\ UNCHANGED <<pending, chat, users, todos, reset_tokens, access_tokens, next_user_id,
                   next_todo_id, next_token, resp>>

(* ------------------------------------------------------------ task store *)
\* .offset(skip).limit(limit)
Page(rows, skip, limit) ==
    SubSeq(rows, skip + 1, IF Len(rows) < skip + limit THEN Len(rows) ELSE skip + limit)

\* crud.get_todos
get_todos(user_id, skip, limit) ==
    Page(ById({t \in todos : t.owner_id = user_id}), skip, limit)

\* get_todos_by_title comparing the titles as they are spelled
get_todos_by_title_case_sensitive(title, user_id) ==
    ById({t \in todos : t.title = title /\ t.owner_id = user_id})

\* crud.get_todos_by_title
get_todos_by_title(title, user_id) ==
    ById({t \in todos : Lower(t.title) = Lower(title) /\ t.owner_id = user_id})

\* the existence query comparing the titles as they are spelled
title_exists_case_sensitive(title, user_id) ==
    \E t \in todos : t.title = title /\ t.owner_id = user_id

\* the existence query of crud.create_user_todo:
\* func.lower(Todo.title) == func.lower(title), Todo.owner_id == user_id
title_exists(title, user_id) ==
    \E t \in todos : Lower(t.title) = Lower(title) /\ t.owner_id = user_id

\* the suffix loop without its query: the first candidate is taken as it is
suffixed_title_no_retry(original_title, user_id, counter) ==
    Suffixed(original_title, counter)

\* the while loop of crud.create_user_todo, entered with counter = 2
RECURSIVE suffixed_title(_, _, _)
suffixed_title(original_title, user_id, counter) ==
    IF ~title_exists(Suffixed(original_title, counter), user_id)
    THEN Suffixed(original_title, counter)
    ELSE suffixed_title(original_title, user_id, counter + 1)

\* title allocation that suffixes the spelling of the task found, not the
\* spelling asked for
allocated_title_existing_spelling(original_title, user_id) ==
    IF title_exists(original_title, user_id)
    THEN LET existing_todo ==
                 CHOOSE t \in todos : /\ Lower(t.title) = Lower(original_title)
                                      /\ t.owner_id = user_id
         IN  suffixed_title(existing_todo.title, user_id, 2)
    ELSE original_title

\* the title crud.create_user_todo stores for a requested title
allocated_title(original_title, user_id) ==
    IF title_exists(original_title, user_id)
    THEN suffixed_title(original_title, user_id, 2)
    ELSE original_title

\* the row crud.create_user_todo inserts: Todo(**todo.dict(), owner_id=user_id)
new_todo(todo, user_id) ==
    [id          |-> next_todo_id,
     owner_id    |-> user_id,
     title       |-> allocated_title(todo.title, user_id),
     description |-> todo.description,
     completed   |-> FALSE,
     due_at      |-> todo.due_at,
     priority    |-> todo.priority,
     category    |-> todo.category,
     created_at  |-> now,
     updated_at  |-> now]

\* the lookup by id alone, without the owner
owned_todo_any_owner(id, user_id) ==
    {t \in todos : t.id = id}

\* crud.get_todo and the first query of update_user_todo / delete_user_todo:
\* Todo.id == id, Todo.owner_id == user_id (no row: 404)
owned_todo(id, user_id) ==
    {t \in todos : t.id = id /\ t.owner_id = user_id}

\* the update that resets what the body leaves out: completed falls back to
\* its default
updated_todo_replacing(db_todo, update_data) ==
    LET set == [f \in DOMAIN db_todo |->
                   IF f \in DOMAIN update_data THEN update_data[f]
                   ELSE IF f = "completed" THEN FALSE ELSE db_todo[f]]
    IN  IF set = db_todo THEN db_todo ELSE [set EXCEPT !.updated_at = now]

\* crud.update_user_todo, the loop "setattr(db_todo, field, value)" and the
\* commit: only the supplied fields change; the title check above it only
\* passes.  updated_at is stamped when the UPDATE changes the row.
updated_todo(db_todo, update_data) ==
    LET set == [f \in DOMAIN db_todo |->
                   IF f \in DOMAIN update_data THEN update_data[f] ELSE db_todo[f]]
    IN  IF set = db_todo THEN db_todo ELSE [set EXCEPT !.updated_at = now]

(* ----------------------------------------------------------- todo routes *)
\* The bodies of the task endpoints reach their handlers as instances of
\* schemas.TodoCreate and schemas.TodoUpdate; the assistant builds its own from
\* the tool arguments and answers a ValidationError in words.

\* schemas.TodoCreate / TodoUpdate: title: Field(max_length=255)
valid_title(title) ==
    Len(title) <= MAX_TITLE_LENGTH

\* GET /crud/todos
read_todos(bearer, skip, limit) ==
    LET me == get_current_user(bearer) IN
    IF me = {}
    THEN AnswerOnly("list", 401, NoUser, 0, <<>>, "Could not validate credentials")
    ELSE \E current_user \in me :
         /\ resp' = Response("list", 200, current_user.id, 0, <<skip, limit>>,
                             get_todos(current_user.id, skip, limit), "", <<>>)
         /\ UNCHANGED <<pending, chat, users, todos, reset_tokens, access_tokens, next_user_id,
                        next_todo_id, next_token, now>>

\* POST /crud/todos
create_todo(bearer, todo) ==
    LET me == get_current_user(bearer) IN
    /\ next_todo_id <= MaxTodoId
    /\ IF me = {}
       THEN AnswerOnly("create", 401, NoUser, 0, <<>>, "Could not validate credentials")
       ELSE \E current_user \in me :
            LET db_todo == new_todo(todo, current_user.id) IN
                 /\ todos' = todos \cup {db_todo}
                 /\ next_todo_id' = next_todo_id + 1
                 /\ resp' = Response("create", 201, current_user.id, db_todo.id, todo,
                                     <<db_todo>>, "", <<>>)
                 /\ UNCHANGED <<pending, chat, users, reset_tokens, access_tokens, next_user_id,
                                next_token, now>>

\* GET /crud/todos/{id}
read_todo(bearer, id) ==
    LET me == get_current_user(bearer) IN
    IF me = {}
    THEN AnswerOnly("get", 401, NoUser, 0, <<>>, "Could not validate credentials")
    ELSE \E current_user \in me :
         LET found == owned_todo(id, current_user.id) IN
         IF found = {}
         THEN AnswerOnly("get", 404, current_user.id, id, <<>>, "Todo not found")
         ELSE \E todo \in found :
              /\ resp' = Response("get", 200, current_user.id, id, <<>>, <<todo>>, "", <<>>)
              /\ UNCHANGED <<pending, chat, users, todos, reset_tokens, access_tokens,
                             next_user_id, next_todo_id, next_token, now>>

\* the nullable=False text columns of models.Todo that a request body can set
\* (title and completed are nullable=False as well; no body sent here nulls them)
not_nullable ==
    {"priority", "category"}

\* PUT /crud/todos/{id}: a body that sets a nullable=False column to null
\* passes schemas.TodoUpdate and fails at the commit with an IntegrityError:
\* 500, no change
update_todo(bearer, id, todo) ==
    LET me == get_current_user(bearer) IN
    IF me = {}
    THEN AnswerOnly("update", 401, NoUser, 0, <<>>, "Could not validate credentials")
    ELSE \E current_user \in me :
         LET found == owned_todo(id, current_user.id) IN
         IF found = {}
         THEN AnswerOnly("update", 404, current_user.id, id, todo, "Todo not found")
         ELSE IF \E f \in DOMAIN todo \cap not_nullable : todo[f] = None
         THEN AnswerOnly("update", 500, current_user.id, id, todo, "Internal Server Error")
         ELSE \E db_todo \in found :
              LET row == updated_todo(db_todo, todo) IN
              /\ todos' = (todos \ {db_todo}) \cup {row}
              /\ resp' = Response("update", 200, current_user.id, id, todo, <<row>>, "", <<>>)
              /\ UNCHANGED <<pending, chat, users, reset_tokens, access_tokens, next_user_id,
                             next_todo_id, next_token, now>>

\* DELETE /crud/todos/{id}
delete_todo(bearer, id) ==
    LET me == get_current_user(bearer) IN
    IF me = {}
    THEN AnswerOnly("delete", 401, NoUser, 0, <<>>, "Could not validate credentials")
    ELSE \E current_user \in me :
         LET found == owned_todo(id, current_user.id) IN
         IF found = {}
         THEN AnswerOnly("delete", 404, current_user.id, id, <<>>, "Todo not found")
         ELSE \E db_todo \in found :
              /\ todos' = todos \ {db_todo}
              /\ resp' = Response("delete", 204, current_user.id, id, <<>>,
                                  <<db_todo>>, "", <<>>)
              /\ UNCHANGED <<pending, chat, users, reset_tokens, access_tokens, next_user_id,
                             next_todo_id, next_token, now>>

(* ------------------------------------------------- assistant dispatcher *)
\* chatbot.execute_todo_action: allowed_priorities, allowed_categories
allowed_priorities == {"low", "medium", "high"}
allowed_categories ==
    {"work", "personal", "study", "home", "health", "shopping", "others"}

\* dateparser.parse on the phrases a tool call carries: a timestamp, or NoDue
\* when the phrase is not understood
parse_date(phrase) ==
    IF phrase = "in 1 hour" THEN now + 1 ELSE NoDue

\* the answer of one tool call: the text (its fixed part and the values put
\* into it) and the store after it
ToolResult(msg, titles, data, store, next_id) ==
    [msg |-> msg, titles |-> titles, data |-> data, todos |-> store,
     next_todo_id |-> next_id]

\* a tool call that leaves the store alone
Says(msg, titles) ==
    ToolResult(msg, titles, <<>>, todos, next_todo_id)

\* the tool arguments without the named keys
Without(args, keys) ==
    [k \in DOMAIN args \ keys |-> args[k]]

\* the tool arguments with key set to value
With(args, key, value) ==
    [k \in DOMAIN args \cup {key} |-> IF k = key THEN value ELSE args[k]]

\* create_todo without the checks of priority and category
execute_create_todo_unchecked(args, user_id) ==
    LET todo == [title       |-> args.title,
                 description |-> None,
                 due_at      |-> NoDue,
                 priority    |-> IF "priority" \in DOMAIN args
                                 THEN args.priority ELSE "low",
                 category    |-> IF "category" \in DOMAIN args
                                 THEN args.category ELSE "others"]
        row == new_todo(todo, user_id)
    IN  ToolResult("Successfully created todo", <<Quoted(row.title)>>, <<row>>,
                   todos \cup {row}, next_todo_id + 1)

\* chatbot.execute_todo_action, branch "create_todo"
execute_create_todo(args, user_id) ==
    LET priority == IF "priority" \in DOMAIN args THEN args.priority ELSE "low"
        category == IF "category" \in DOMAIN args THEN args.category ELSE "others"
    IN
    IF priority \notin allowed_priorities
    THEN Says("Invalid priority", <<>>)
    ELSE IF category \notin allowed_categories
    THEN Says("Invalid category", <<>>)
    ELSE IF "title" \notin DOMAIN args \/ ~valid_title(args.title)
    THEN Says("There was an issue creating the todo", <<>>)
    ELSE LET todo == [title       |-> args.title,
                      description |-> IF "description" \in DOMAIN args
                                      THEN args.description ELSE None,
                      due_at      |-> IF "due_at" \in DOMAIN args
                                      THEN args.due_at ELSE NoDue,
                      priority    |-> priority,
                      category    |-> category]
             row == new_todo(todo, user_id)
         IN  ToolResult("Successfully created todo", <<Quoted(row.title)>>, <<row>>,
                        todos \cup {row}, next_todo_id + 1)

\* chatbot.execute_todo_action, branch "list_todos"
execute_list_todos(user_id) ==
    LET rows == get_todos(user_id, 0, 100) IN
    IF rows = <<>>
    THEN Says("You have no outstanding todos.", <<>>)
    ELSE ToolResult("Your todos", [i \in 1..Len(rows) |-> rows[i].title], rows,
                    todos, next_todo_id)

\* chatbot.execute_todo_action, branch "update_todo"
execute_update_todo(args, user_id) ==
    IF "original_title" \notin DOMAIN args \/ args.original_title = <<>>
    THEN Says("Please provide the title of the todo you want to update.", <<>>)
    ELSE
    LET original_title == args.original_title
        stripped == Without(args, {"original_title"})
        update_data == IF "new_title" \in DOMAIN stripped
                       THEN With(Without(stripped, {"new_title"}), "title",
                                 stripped.new_title)
                       ELSE stripped
        matching_todos == get_todos_by_title(original_title, user_id)
    IN
    IF "priority" \in DOMAIN update_data
          /\ update_data.priority \notin allowed_priorities
    THEN Says("Invalid priority", <<>>)
    ELSE IF "category" \in DOMAIN update_data
          /\ update_data.category \notin allowed_categories
    THEN Says("Invalid category", <<>>)
    ELSE IF DOMAIN update_data = {}
    THEN Says("Please provide at least one field to update", <<>>)
    ELSE IF matching_todos = <<>>
    THEN Says("No todo found with title", <<Quoted(original_title)>>)
    ELSE IF Len(matching_todos) > 1
    THEN Says("Multiple todos found with a title similar to",
              <<Quoted(original_title)>> \o
                  [i \in 1..Len(matching_todos) |-> Quoted(matching_todos[i].title)])
    ELSE IF "title" \in DOMAIN update_data /\ ~valid_title(update_data.title)
    THEN Says("There was an issue updating the todo", <<>>)
    ELSE \* crud.update_user_todo is handed clean_update_data, a dict: after its
         \* first query, todo.model_dump raises AttributeError, which the
         \* handler of execute_todo_action turns into the apology
         Says("Sorry, I ran into an unexpected issue.", <<>>)

\* delete_todo that removes the first task it finds, however many match
execute_delete_todo_first_match(args, user_id) ==
    LET matching_todos == get_todos_by_title(args.title, user_id) IN
    IF matching_todos = <<>>
    THEN Says("No todo found with title", <<Quoted(args.title)>>)
    ELSE LET target_todo == matching_todos[1] IN
         ToolResult("Successfully deleted todo", <<Quoted(target_todo.title)>>, <<>>,
                    todos \ {target_todo}, next_todo_id)

\* chatbot.execute_todo_action, branch "delete_todo"
execute_delete_todo(args, user_id) ==
    IF "title" \notin DOMAIN args \/ args.title = <<>>
    THEN Says("Please provide the title of the todo you want to delete.", <<>>)
    ELSE
    LET matching_todos == get_todos_by_title(args.title, user_id) IN
    IF matching_todos = <<>>
    THEN Says("No todo found with title", <<Quoted(args.title)>>)
    ELSE IF Len(matching_todos) > 1
    THEN Says("Multiple todos found. Please provide the exact title",
              [i \in 1..Len(matching_todos) |-> Quoted(matching_todos[i].title)])
    ELSE LET target_todo == matching_todos[1] IN
         ToolResult("Successfully deleted todo", <<Quoted(target_todo.title)>>, <<>>,
                    todos \ owned_todo(target_todo.id, user_id), next_todo_id)

\* chatbot.execute_todo_action
execute_todo_action(action_type, args, current_user) ==
    IF current_user = {}
    THEN Says("You must be logged in to manage your to-do list.", <<>>)
    ELSE
    LET user_id == (CHOOSE u \in current_user : TRUE).id
        dated == action_type \in {"create_todo", "update_todo"}
                     /\ "due_at" \in DOMAIN args
        parsed == IF dated THEN With(args, "due_at", parse_date(args.due_at))
                  ELSE args
    IN
    IF dated /\ parse_date(args.due_at) = NoDue
    THEN Says("Could not understand the date", <<>>)
    ELSE CASE action_type = "create_todo" -> execute_create_todo(parsed, user_id)
           [] action_type = "list_todos"  -> execute_list_todos(user_id)
           [] action_type = "update_todo" -> execute_update_todo(parsed, user_id)
           [] action_type = "delete_todo" -> execute_delete_todo(parsed, user_id)
           [] OTHER -> Says("Unknown action", <<>>)

\* POST /chat/chatbot: tool_calls is what the model's first reply asks for; the
\* first call, when there is one, is dispatched
chat_with_bot(bearer, tool_calls) ==
    LET current_user == get_current_user_optional(bearer)
        uid == IF current_user = {} THEN NoUser
               ELSE (CHOOSE u \in current_user : TRUE).id
    IN
    IF tool_calls = <<>>
    THEN AnswerOnly("chat", 200, uid, 0, <<>>, "")
    ELSE LET tool_call == tool_calls[1]
             tool_output == execute_todo_action(tool_call.name, tool_call.arguments,
                                                current_user)
         IN  /\ tool_output.next_todo_id <= MaxTodoId + 1
             /\ todos' = tool_output.todos
             /\ next_todo_id' = tool_output.next_todo_id
             /\ resp' = Response(tool_call.name, 200, uid, 0, tool_call.arguments,
                                 tool_output.data,
                                 tool_output.msg, tool_output.titles)
             /\ UNCHANGED <<pending, chat, users, reset_tokens, access_tokens, next_user_id,
                            next_token, now>>

(* ------------------------------------- requests of concurrent workers *)
\* The routes are plain functions, which the server runs on worker threads: a
\* request can run between another one's queries and its commit.  pending
\* holds the requests that have run their queries, each with what it decided.

\* the lowest slot no request in flight holds
FreeSlot ==
    CHOOSE k \in 1..(MaxPending + 1) :
        /\ ~\E p \in pending : p.slot = k
        /\ \A j \in 1..(k - 1) : \E p \in pending : p.slot = j

\* crud.create_user_todo, the row it adds: Todo(**todo.dict(), owner_id=user_id)
todo_row(todo, user_id) ==
    [id          |-> next_todo_id,
     owner_id    |-> user_id,
     title       |-> todo.title,
     description |-> todo.description,
     completed   |-> FALSE,
     due_at      |-> todo.due_at,
     priority    |-> todo.priority,
     category    |-> todo.category,
     created_at  |-> now,
     updated_at  |-> now]

\* POST /crud/todos up to the commit: crud.create_user_todo has run its
\* queries and set todo.title
create_todo_check(bearer, todo) ==
    LET me == get_current_user(bearer) IN
    IF me = {}
    THEN AnswerOnly("create", 401, NoUser, 0, <<>>, "Could not validate credentials")
    ELSE LET current_user == CHOOSE u \in me : TRUE IN
         /\ Cardinality(pending) < MaxPending
         /\ pending' = pending \cup
                {[slot           |-> FreeSlot,
                  op             |-> "create",
                  user_id        |-> current_user.id,
                  original_title |-> todo.title,
                  todo           |-> [todo EXCEPT !.title =
                                         allocated_title(todo.title, current_user.id)]]}
         /\ UNCHANGED <<users, todos, reset_tokens, access_tokens, next_user_id,
                        next_todo_id, next_token, now, resp, chat>>

\* a commit that allocates the title again over the store as it is by then
create_todo_commit_rechecked(request) ==
    /\ request \in pending
    /\ request.op = "create"
    /\ next_todo_id <= MaxTodoId
    /\ LET db_todo == todo_row([request.todo EXCEPT !.title =
                                   allocated_title(request.original_title,
                                                   request.user_id)],
                               request.user_id)
       IN  /\ todos' = todos \cup {db_todo}
           /\ next_todo_id' = next_todo_id + 1
           /\ pending' = pending \ {request}
           /\ resp' = Response("create", 201, request.user_id, db_todo.id,
                               [request.todo EXCEPT !.title = request.original_title],
                               <<db_todo>>, "", <<>>)
    /\ UNCHANGED <<users, reset_tokens, access_tokens, next_user_id, next_token,
                   now, chat>>

\* POST /crud/todos from the commit on: db.add, db.commit, db.refresh
create_todo_commit(request) ==
    /\ request \in pending
    /\ request.op = "create"
    /\ next_todo_id <= MaxTodoId
    /\ LET db_todo == todo_row(request.todo, request.user_id)
       IN  /\ todos' = todos \cup {db_todo}
           /\ next_todo_id' = next_todo_id + 1
           /\ pending' = pending \ {request}
           /\ resp' = Response("create", 201, request.user_id, db_todo.id,
                               [request.todo EXCEPT !.title = request.original_title],
                               <<db_todo>>, "", <<>>)
    /\ UNCHANGED <<users, reset_tokens, access_tokens, next_user_id, next_token,
                   now, chat>>

\* POST /auth/signup up to the commit: the email query has found nothing
create_user_check(username, email, password) ==
    IF \E u \in users : u.email = email
    THEN AnswerOnly("signup", 400, NoUser, 0, <<username, email>>, "Email already registered")
    ELSE /\ Cardinality(pending) < MaxPending
         /\ pending' = pending \cup
                {[slot |-> FreeSlot, op |-> "signup", user_id |-> NoUser,
                  username |-> username, email |-> email, password |-> password]}
         /\ UNCHANGED <<users, todos, reset_tokens, access_tokens, next_user_id,
                        next_todo_id, next_token, now, resp, chat>>

\* a commit on a users table without its unique constraints
create_user_commit_unconstrained(request) ==
    /\ request \in pending
    /\ request.op = "signup"
    /\ next_user_id <= MaxUserId
    /\ users' = users \cup
           {[id |-> next_user_id, username |-> request.username,
             email |-> request.email,
             hashed_password |-> get_password_hash(request.password)]}
    /\ next_user_id' = next_user_id + 1
    /\ access_tokens' = access_tokens \cup
           {create_access_token(request.username, next_user_id)}
    /\ pending' = pending \ {request}
    /\ resp' = Response("signup", 201, next_user_id, 0,
                        <<request.username, request.email>>, <<>>, "bearer", <<>>)
    /\ UNCHANGED <<todos, reset_tokens, next_todo_id, next_token, now, chat>>

\* POST /auth/signup from the commit on: users.username and users.email are
\* unique, and the IntegrityError of the commit is answered 400
create_user_commit(request) ==
    /\ request \in pending
    /\ request.op = "signup"
    /\ IF \E u \in users : u.username = request.username \/ u.email = request.email
       THEN /\ pending' = pending \ {request}
            /\ resp' = Response("signup", 400, NoUser, 0,
                                <<request.username, request.email>>, <<>>,
                                "Username or email already registered", <<>>)
            /\ UNCHANGED <<users, todos, reset_tokens, access_tokens, next_user_id,
                           next_todo_id, next_token, now, chat>>
       ELSE /\ next_user_id <= MaxUserId
            /\ users' = users \cup
                   {[id |-> next_user_id, username |-> request.username,
                     email |-> request.email,
                     hashed_password |-> get_password_hash(request.password)]}
            /\ next_user_id' = next_user_id + 1
            /\ access_tokens' = access_tokens \cup
                   {create_access_token(request.username, next_user_id)}
            /\ pending' = pending \ {request}
            /\ resp' = Response("signup", 201, next_user_id, 0,
                                <<request.username, request.email>>, <<>>, "bearer", <<>>)
            /\ UNCHANGED <<todos, reset_tokens, next_todo_id, next_token, now, chat>>

\* PATCH /auth/users/me up to the commit: the username query has found nothing
update_user_me_check(bearer, username) ==
    LET me == get_current_user(bearer) IN
    IF me = {}
    THEN AnswerOnly("rename", 401, NoUser, 0, <<>>, "Could not validate credentials")
    ELSE \E current_user \in me :
         IF username # current_user.username
         THEN IF \E u \in users : u.username = username
              THEN AnswerOnly("rename", 400, current_user.id, 0, username,
                              "Username already taken")
              ELSE /\ Cardinality(pending) < MaxPending
                   /\ pending' = pending \cup
                          {[slot |-> FreeSlot, op |-> "rename",
                            user_id |-> current_user.id, username |-> username,
                            email |-> None, password |-> None]}
                   /\ UNCHANGED <<users, todos, reset_tokens, access_tokens,
                                  next_user_id, next_todo_id, next_token, now, resp,
                                  chat>>
         ELSE /\ access_tokens' = access_tokens \cup
                     {create_access_token(current_user.username, current_user.id)}
              /\ resp' = Response("rename", 200, current_user.id, 0, username, <<>>,
                                  "bearer", <<>>)
              /\ UNCHANGED <<users, todos, reset_tokens, next_user_id, next_todo_id,
                             next_token, now, pending, chat>>

\* PATCH /auth/users/me from the commit on; nothing catches the
\* IntegrityError of the unique username, which the server answers 500
update_user_me_commit(request) ==
    /\ request \in pending
    /\ request.op = "rename"
    /\ pending' = pending \ {request}
    /\ IF \/ \E u \in users : u.username = request.username
          \/ ~\E u \in users : u.id = request.user_id
       THEN /\ resp' = Response("rename", 500, request.user_id, 0, request.username,
                                <<>>, "Internal Server Error", <<>>)
            /\ UNCHANGED <<users, todos, reset_tokens, access_tokens, next_user_id,
                           next_todo_id, next_token, now, chat>>
       ELSE /\ users' = {IF u.id = request.user_id
                         THEN [u EXCEPT !.username = request.username] ELSE u :
                         u \in users}
            /\ access_tokens' = access_tokens \cup
                   {create_access_token(request.username, request.user_id)}
            /\ resp' = Response("rename", 200, request.user_id, 0, request.username,
                                <<>>, "bearer", <<>>)
            /\ UNCHANGED <<todos, reset_tokens, next_user_id, next_todo_id,
                           next_token, now, chat>>

(* ------------------------------------------- the steps of one chat turn *)
\* chat_with_bot step by step, for what other requests do in between; chat
\* holds the turn: where it is (pc), the roles of the messages so far, the
\* tool_choice of every model call issued, the tools dispatched.

\* the user of a turn, as an id
TurnUser(current_user) ==
    IF current_user = {} THEN NoUser ELSE (CHOOSE u \in current_user : TRUE).id

\* chat_with_bot up to the first model call (tool_choice="auto") and its
\* reply, which asks for tool_calls
chat_select(bearer, tool_calls) ==
    /\ chat.pc \in {"idle", "done"}
    /\ chat' = [pc           |-> "selected",
                bearer       |-> bearer,
                current_user |-> get_current_user_optional(bearer),
                tool_calls   |-> tool_calls,
                messages     |-> <<"system", "user", "assistant">>,
                model_calls  |-> <<"auto">>,
                dispatched   |-> <<>>,
                output       |-> NoTurn.output]
    /\ UNCHANGED <<users, todos, reset_tokens, access_tokens, next_user_id,
                   next_todo_id, next_token, now, resp, pending>>

\* chat_with_bot, the else branch: the reply asks for no tool
chat_answer(turn) ==
    /\ turn.pc = "selected"
    /\ turn.tool_calls = <<>>
    /\ chat' = [turn EXCEPT !.pc = "done"]
    /\ resp' = Response("chat", 200, TurnUser(turn.current_user), 0, <<>>, <<>>, "", <<>>)
    /\ UNCHANGED <<users, todos, reset_tokens, access_tokens, next_user_id,
                   next_todo_id, next_token, now, pending>>

\* the dispatch of the last tool call the reply asks for
chat_dispatch_last_call(turn) ==
    /\ turn.pc = "selected"
    /\ turn.tool_calls # <<>>
    /\ LET tool_call == turn.tool_calls[Len(turn.tool_calls)]
           tool_output == execute_todo_action(tool_call.name, tool_call.arguments,
                                              turn.current_user)
       IN  /\ tool_output.next_todo_id <= MaxTodoId + 1
           /\ todos' = tool_output.todos
           /\ next_todo_id' = tool_output.next_todo_id
           /\ chat' = [turn EXCEPT !.pc = "dispatched",
                                   !.messages = @ \o <<"tool">>,
                                   !.dispatched = @ \o <<tool_call>>,
                                   !.output = [msg    |-> tool_output.msg,
                                               titles |-> tool_output.titles,
                                               data   |-> tool_output.data]]
    /\ UNCHANGED <<users, reset_tokens, access_tokens, next_user_id, next_token,
                   now, resp, pending>>

\* chat_with_bot, the tool branch: tool_calls[0] is dispatched and its text
\* appended as a tool message
chat_dispatch(turn) ==
    /\ turn.pc = "selected"
    /\ turn.tool_calls # <<>>
    /\ LET tool_call == turn.tool_calls[1]
           tool_output == execute_todo_action(tool_call.name, tool_call.arguments,
                                              turn.current_user)
       IN  /\ tool_output.next_todo_id <= MaxTodoId + 1
           /\ todos' = tool_output.todos
           /\ next_todo_id' = tool_output.next_todo_id
           /\ chat' = [turn EXCEPT !.pc = "dispatched",
                                   !.messages = @ \o <<"tool">>,
                                   !.dispatched = @ \o <<tool_call>>,
                                   !.output = [msg    |-> tool_output.msg,
                                               titles |-> tool_output.titles,
                                               data   |-> tool_output.data]]
    /\ UNCHANGED <<users, reset_tokens, access_tokens, next_user_id, next_token,
                   now, resp, pending>>

\* chat_with_bot, the tool branch: the second model call (tool_choice="none")
\* and the answer
chat_reply(turn) ==
    /\ turn.pc = "dispatched"
    /\ chat' = [turn EXCEPT !.pc = "done",
                            !.messages = @ \o <<"assistant">>,
                            !.model_calls = @ \o <<"none">>]
    /\ resp' = Response(turn.dispatched[1].name, 200, TurnUser(turn.current_user), 0,
                        turn.dispatched[1].arguments, turn.output.data,
                        turn.output.msg, turn.output.titles)
    /\ UNCHANGED <<users, todos, reset_tokens, access_tokens, next_user_id,
                   next_todo_id, next_token, now, pending>>

\* chat_with_bot, the except branch: a model call raises and the turn is
\* answered 500; the first call is the one of a turn that has not selected
chat_error(turn, bearer) ==
    /\ turn.pc \in {"idle", "done", "dispatched"}
    /\ chat' = IF turn.pc = "dispatched"
               THEN [turn EXCEPT !.pc = "done", !.model_calls = @ \o <<"none">>]
               ELSE [NoTurn EXCEPT !.pc = "done",
                                   !.bearer = bearer,
                                   !.current_user = get_current_user_optional(bearer),
                                   !.messages = <<"system", "user">>,
                                   !.model_calls = <<"auto">>]
    /\ resp' = Response("chat", 500, TurnUser(chat'.current_user), 0, <<>>, <<>>,
                        "An error occurred with the chatbot", <<>>)
    /\ UNCHANGED <<users, todos, reset_tokens, access_tokens, next_user_id,
                   next_todo_id, next_token, now, pending>>

(* -------------------------------------------------------------- dashboard *)
\* the rows of a query ordered by due_at (rows due together in primary-key
\* order)
RECURSIVE ByDue(_)
ByDue(rows) ==
    IF rows = {} THEN <<>>
    ELSE LET first == CHOOSE r \in rows :
                          \A q \in rows : \/ r.due_at < q.due_at
                                          \/ r.due_at = q.due_at /\ r.id <= q.id
         IN  <<first>> \o ByDue(rows \ {first})

\* get_task_stats counting as overdue every task whose due_at is below now
get_task_stats_overdue_any(user_id) ==
    LET mine == {t \in todos : t.owner_id = user_id}
        total == Cardinality(mine)
        completed == Cardinality({t \in mine : t.completed})
    IN  [total       |-> total,
         completed   |-> completed,
         in_progress |-> total - completed,
         overdue     |-> Cardinality({t \in mine : t.due_at < now})]

\* crud.get_task_stats; a NULL due_at compares as unknown and is not counted
get_task_stats(user_id) ==
    LET mine == {t \in todos : t.owner_id = user_id}
        total == Cardinality(mine)
        completed == Cardinality({t \in mine : t.completed})
    IN  [total       |-> total,
         completed   |-> completed,
         in_progress |-> total - completed,
         overdue     |-> Cardinality({t \in mine : /\ ~t.completed
                                                    /\ t.due_at # NoDue
                                                    /\ t.due_at < now})]

\* crud.get_tasks_by_priority: GROUP BY priority, as priority -> count
get_tasks_by_priority(user_id) ==
    LET mine == {t \in todos : t.owner_id = user_id} IN
    [p \in {t.priority : t \in mine} |-> Cardinality({t \in mine : t.priority = p})]

\* the GROUP BY category over the tasks of every owner
get_tasks_by_category_all_owners(user_id) ==
    [c \in {t.category : t \in todos} |-> Cardinality({t \in todos : t.category = c})]

\* crud.get_tasks_by_category: GROUP BY category, as category -> count
get_tasks_by_category(user_id) ==
    LET mine == {t \in todos : t.owner_id = user_id} IN
    [c \in {t.category : t \in mine} |-> Cardinality({t \in mine : t.category = c})]

\* crud.get_upcoming_deadlines
get_upcoming_deadlines(user_id, limit) ==
    Page(ByDue({t \in todos : /\ t.owner_id = user_id
                              /\ ~t.completed
                              /\ t.due_at # NoDue
                              /\ t.due_at > now}), 0, limit)

\* dashboard.get_dashboard_data: all_categories
all_categories ==
    <<"work", "personal", "shopping", "health", "education", "others">>

\* GET /api/
get_dashboard_data(bearer) ==
    LET me == get_current_user(bearer) IN
    IF me = {}
    THEN AnswerOnly("dashboard", 401, NoUser, 0, <<>>, "Could not validate credentials")
    ELSE LET current_user == CHOOSE u \in me : TRUE
             stats == get_task_stats(current_user.id)
             priorities == get_tasks_by_priority(current_user.id)
             category_map == get_tasks_by_category(current_user.id)
             deadlines == get_upcoming_deadlines(current_user.id, 5)
             full_categories ==
                 [i \in 1..Len(all_categories) |->
                     [category |-> all_categories[i],
                      count    |-> IF all_categories[i] \in DOMAIN category_map
                                   THEN category_map[all_categories[i]] ELSE 0]]
         IN  /\ resp' = Response("dashboard", 200, current_user.id, 0, <<>>,
                                 <<[stats      |-> stats,
                                    priorities |-> priorities,
                                    categories |-> full_categories,
                                    deadlines  |-> deadlines]>>, "", <<>>)
             /\ UNCHANGED <<pending, chat, users, todos, reset_tokens, access_tokens, next_user_id,
                            next_todo_id, next_token, now>>

(* ------------------------------------------------------- specification *)
\* the titles clients ask for: "A", "a" and "A (2)"
TitleInputs ==
    {<<"A">>, <<"a">>, Suffixed(<<"A">>, 2)}

\* bodies of POST /crud/todos, the left-out fields at their schema defaults
TodoCreateInputs ==
    {[title |-> t, description |-> None, due_at |-> NoDue, priority |-> "low",
      category |-> "others"] : t \in TitleInputs}

\* bodies of PUT /crud/todos/{id}: only the fields that are set
TodoUpdateInputs ==
    {[title |-> <<"a">>], [completed |-> TRUE], <<>>}

\* the ids clients ask for: every id handed out, and one that never is
TodoIdInputs ==
    1..(MaxTodoId + 1)

\* the tool calls the language model asks for
ToolCallInputs ==
    {[name |-> "create_todo", arguments |-> [title |-> <<"A">>]],
     [name |-> "create_todo", arguments |-> [title |-> <<"a">>, category |-> "invalid"]],
     [name |-> "create_todo", arguments |-> [title |-> <<"a">>, priority |-> "urgent"]],
     [name |-> "list_todos", arguments |-> <<>>],
     [name |-> "update_todo", arguments |-> [original_title |-> <<"a">>]],
     [name |-> "update_todo",
      arguments |-> [original_title |-> <<"a">>, completed |-> TRUE]],
     [name |-> "update_todo",
      arguments |-> [original_title |-> <<"a">>, priority |-> "urgent"]],
     [name |-> "update_todo",
      arguments |-> [original_title |-> <<"a">>, due_at |-> "someday"]],
     [name |-> "delete_todo", arguments |-> [title |-> <<"a">>]]}

Init ==
    /\ users = {}
    /\ todos = {}
    /\ reset_tokens = {}
    /\ access_tokens = {}
    /\ next_user_id = 1
    /\ next_todo_id = 1
    /\ next_token = 1
    /\ now = 0
    /\ resp = [seq |-> 0, op |-> "none", status |-> 0, uid |-> NoUser, id |-> 0,
               arg |-> <<>>, data |-> <<>>, msg |-> "", titles |-> <<>>]
    /\ pending = {}
    /\ chat = NoTurn

\* what signup is sent: the password every account starts with
SignupPasswords == {"pw"}

\* signups of two people, each with their own address
OwnSignups ==
    {<<"alice", "alice@x.com">>, <<"bob", "bob@x.com">>}

\* offset and limit of GET /crud/todos: the default page, and the second row
PageInputs ==
    {<<0, 100>>, <<1, 1>>}

\* every request the service takes
Next ==
    \/ \E u \in Usernames, e \in Emails, p \in SignupPasswords : create_user(u, e, p)
    \/ \E i \in Usernames \cup Emails, p \in Passwords : login_for_access_token(i, p)
    \/ \E b \in BearerInputs, u \in Usernames \cup {None} : update_user_me(b, u)
    \/ \E b \in BearerInputs, p \in Passwords, q \in Passwords : reset_password(b, p, q)
    \/ \E b \in BearerInputs, p \in Passwords : delete_user_me(b, p)
    \/ \E e \in Emails : forgot_password(e)
    \/ \E k \in 1..MaxResetTokens, p \in Passwords : reset_password_confirm(k, p)
    \/ Tick
    \/ \E b \in BearerInputs, p \in PageInputs : read_todos(b, p[1], p[2])
    \/ \E b \in BearerInputs, t \in TodoCreateInputs : create_todo(b, t)
    \/ \E b \in BearerInputs, i \in TodoIdInputs : read_todo(b, i)
    \/ \E b \in BearerInputs, i \in TodoIdInputs, t \in TodoUpdateInputs :
           update_todo(b, i, t)
    \/ \E b \in BearerInputs, i \in TodoIdInputs : delete_todo(b, i)
    \/ \E b \in BearerInputs, c \in ToolCallInputs : chat_with_bot(b, <<c>>)
    \/ \E b \in BearerInputs : chat_with_bot(b, <<>>)
    \/ \E b \in BearerInputs : get_dashboard_data(b)

Spec ==
    Init /\ [][Next]_vars

\* The requests of Next are checked in parts, each with the requests on
\* accounts that the part depends on.

\* accounts and their tasks: signup, account deletion and the task endpoints
TaskNext ==
    \/ \E s \in OwnSignups, p \in SignupPasswords : create_user(s[1], s[2], p)
    \/ \E b \in BearerInputs, p \in Passwords : delete_user_me(b, p)
    \/ \E b \in BearerInputs, p \in PageInputs : read_todos(b, p[1], p[2])
    \/ \E b \in BearerInputs, t \in TodoCreateInputs : create_todo(b, t)
    \/ \E b \in BearerInputs, i \in TodoIdInputs : read_todo(b, i)
    \/ \E b \in BearerInputs, i \in TodoIdInputs : update_todo(b, i, [title |-> <<"a">>])
    \/ \E b \in BearerInputs, i \in TodoIdInputs : delete_todo(b, i)

TaskSpec ==
    Init /\ [][TaskNext]_vars

\* the task bodies sent beside the assistant's tool calls
ChatCreateInputs ==
    {t \in TodoCreateInputs : t.title = <<"A">>}

\* the assistant: signup, task creation and renaming, and the tool calls
ChatNext ==
    \/ \E s \in OwnSignups, p \in SignupPasswords : create_user(s[1], s[2], p)
    \/ \E b \in BearerInputs, t \in ChatCreateInputs : create_todo(b, t)
    \/ \E b \in BearerInputs, i \in TodoIdInputs : update_todo(b, i, [title |-> <<"a">>])
    \/ \E b \in BearerInputs, c \in ToolCallInputs : chat_with_bot(b, <<c>>)
    \/ \E b \in BearerInputs : chat_with_bot(b, <<>>)

ChatSpec ==
    Init /\ [][ChatNext]_vars

\* the forgotten-password flow: signup, account deletion, the reset tokens
\* and the clock they expire by
ResetNext ==
    \/ \E s \in OwnSignups, p \in SignupPasswords : create_user(s[1], s[2], p)
    \/ \E b \in BearerInputs, p \in Passwords : delete_user_me(b, p)
    \/ \E e \in Emails : forgot_password(e)
    \/ \E k \in 1..MaxResetTokens, p \in Passwords : reset_password_confirm(k, p)
    \/ Tick

ResetSpec ==
    Init /\ [][ResetNext]_vars

\* bodies of POST /crud/todos beside the dashboard: categories in and out of
\* the dashboard's list, with and without a due time
DashCreateInputs ==
    {[title |-> <<"A">>, description |-> None, due_at |-> 1, priority |-> "low",
      category |-> "work"],
     [title |-> <<"A">>, description |-> None, due_at |-> NoDue, priority |-> "low",
      category |-> "study"],
     [title |-> <<"A">>, description |-> None, due_at |-> NoDue, priority |-> "low",
      category |-> "education"]}

\* the dashboard: signup, task creation and completion, the clock and the
\* dashboard itself.  Tasks are created before the clock moves, by signed-in
\* users; alice sends every body, bob the first.
DashNext ==
    \/ \E s \in OwnSignups, p \in SignupPasswords : create_user(s[1], s[2], p)
    \/ \E b \in BearerInputs \ {InvalidToken}, t \in DashCreateInputs :
           /\ now = 0
           /\ b.sub = "alice" \/ t.category = "work"
           /\ create_todo(b, t)
    \/ \E b \in BearerInputs \ {InvalidToken}, i \in 1..MaxTodoId :
           update_todo(b, i, [completed |-> TRUE])
    \/ \E b \in BearerInputs : get_dashboard_data(b)
    \/ Tick

DashSpec ==
    Init /\ [][DashNext]_vars

\* what the model's first reply asks for: nothing, one tool call, or two
TurnToolCalls ==
    {<<>>,
     <<[name |-> "create_todo", arguments |-> [title |-> <<"A">>]]>>,
     <<[name |-> "create_todo", arguments |-> [title |-> <<"A">>]],
       [name |-> "delete_todo", arguments |-> [title |-> <<"a">>]]>>,
     <<[name |-> "delete_todo", arguments |-> [title |-> <<"a">>]],
       [name |-> "create_todo", arguments |-> [title |-> <<"A">>]]>>}

\* a chat turn step by step, among signups and task creations
TurnNext ==
    \/ \E s \in OwnSignups, p \in SignupPasswords : create_user(s[1], s[2], p)
    \/ \E b \in BearerInputs, t \in ChatCreateInputs : create_todo(b, t)
    \/ \E b \in BearerInputs, c \in TurnToolCalls : chat_select(b, c)
    \/ chat_answer(chat)
    \/ chat_dispatch(chat)
    \/ chat_reply(chat)
    \/ \E b \in BearerInputs : chat_error(chat, b)

TurnSpec ==
    Init /\ [][TurnNext]_vars

\* bodies of concurrent POST /crud/todos: "A" and "a"
RaceCreateInputs ==
    {t \in TodoCreateInputs : t.title \in {<<"A">>, <<"a">>}}

\* task creation by concurrent workers
RaceNext ==
    \/ \E s \in OwnSignups, p \in SignupPasswords : create_user(s[1], s[2], p)
    \/ \E b \in BearerInputs, t \in RaceCreateInputs : create_todo_check(b, t)
    \/ \E r \in pending : create_todo_commit(r)

RaceSpec ==
    Init /\ [][RaceNext]_vars

\* signup and renaming by concurrent workers
SignupNext ==
    \/ \E u \in Usernames, e \in Emails, p \in SignupPasswords :
           create_user_check(u, e, p)
    \/ \E r \in pending : create_user_commit(r)
    \/ \E b \in BearerInputs, u \in Usernames : update_user_me_check(b, u)
    \/ \E r \in pending : update_user_me_commit(r)

SignupSpec ==
    Init /\ [][SignupNext]_vars

\* a title of the greatest length the schemas let through
LongTitle ==
    [i \in 1..MAX_TITLE_LENGTH |-> "a"]

\* the titles a body can carry past schemas.TodoCreate / TodoUpdate: the empty
\* one, a short one and the longest one (one character more is refused)
LengthTitles ==
    {t \in {<<>>, <<"A">>, LongTitle, LongTitle \o <<"a">>} : valid_title(t)}

\* task creation and renaming, REST and assistant, at the ends of the title's
\* length
LengthNext ==
    \/ \E s \in OwnSignups, p \in SignupPasswords : create_user(s[1], s[2], p)
    \/ \E b \in BearerInputs, t \in LengthTitles :
           create_todo(b, [title |-> t, description |-> None, due_at |-> NoDue,
                           priority |-> "low", category |-> "others"])
    \/ \E b \in BearerInputs, i \in TodoIdInputs : update_todo(b, i, [title |-> <<>>])
    \/ \E b \in BearerInputs, t \in LengthTitles :
           chat_with_bot(b, <<[name |-> "create_todo", arguments |-> [title |-> t]]>>)

LengthSpec ==
    Init /\ [][LengthNext]_vars

\* the usernames of signups beside the logins: nothing keeps a username from
\* being an email address, someone else's included
LoginUsernames ==
    {"alice", "bob@x.com"}

\* the identifiers logins are tried with: usernames and emails, taken or not
LoginIdentifiers ==
    LoginUsernames \cup Emails \cup {"bob"}

\* signup and login
LoginNext ==
    \/ \E u \in LoginUsernames, e \in Emails, p \in Passwords : create_user(u, e, p)
    \/ \E i \in LoginIdentifiers, p \in Passwords : login_for_access_token(i, p)

LoginSpec ==
    Init /\ [][LoginNext]_vars

\* bodies of PUT /crud/todos/{id} for one task: one field, two fields, none,
\* and a null for a column that cannot hold one
UpdateBodies ==
    {[title |-> <<"a">>], [completed |-> TRUE], <<>>,
     [title |-> <<"A">>, priority |-> "high"], [category |-> None]}

\* the first two tasks of one account, made before time passes, and their
\* updates afterwards
UpdateNext ==
    \/ create_user("alice", "alice@x.com", "pw")
    \/ /\ now = 0 /\ next_todo_id <= 2
       /\ \E b \in BearerInputs \ {InvalidToken}, t \in TodoCreateInputs :
              t.title \in {<<"A">>, <<"a">>} /\ create_todo(b, t)
    \/ \E b \in BearerInputs, i \in TodoIdInputs, t \in UpdateBodies :
           update_todo(b, i, t)
    \/ Tick

UpdateSpec ==
    Init /\ [][UpdateNext]_vars

\* accounts only: signup, login, username update and account deletion
AccountNext ==
    \/ \E s \in OwnSignups \cup {<<"alice", "bob@x.com">>}, p \in SignupPasswords :
           create_user(s[1], s[2], p)
    \/ \E i \in Usernames \cup Emails, p \in SignupPasswords :
           login_for_access_token(i, p)
    \/ \E b \in BearerInputs, u \in Usernames \cup {None} : update_user_me(b, u)
    \/ \E b \in BearerInputs, p \in SignupPasswords : delete_user_me(b, p)

AccountSpec ==
    Init /\ [][AccountNext]_vars

(* ---------------------------------------------------------------- claims *)
\* a request is answered in this step
Handled ==
    resp'.seq # resp.seq

\* this step answers a successful POST /crud/todos
Created ==
    Handled /\ resp'.op = "create" /\ resp'.status = 201

\* the owner has a task whose title equals title case-insensitively
HasTitleCI(store, owner, title) ==
    \E t \in store : t.owner_id = owner /\ EqCI(t.title, title)

\* C1: in every reachable state no two tasks of one owner have titles that
\* are equal under case-insensitive comparison.
C1_TitlesUniquePerOwner ==
    \A s \in todos, t \in todos :
        (s.owner_id = t.owner_id /\ EqCI(s.title, t.title)) => s.id = t.id

\* C2: a create stores the requested title T unchanged when the owner has no
\* task equal to T case-insensitively, and otherwise "T (k)" for the smallest
\* k >= 2 such that the owner has no task equal to "T (k)" case-insensitively.
C2_CreateAllocatesTitle ==
    [][Created =>
        LET owner == resp'.uid
            T == resp'.arg.title
            row == resp'.data[1]
        IN  /\ todos' = todos \cup {row}
            /\ row.owner_id = owner
            /\ ~HasTitleCI(todos, owner, T) => row.title = T
            /\ HasTitleCI(todos, owner, T) =>
                   \E k \in 2..(Cardinality(todos) + 2) :
                       /\ row.title = T \o <<" ", "(">> \o Decimal(k) \o <<")">>
                       /\ ~HasTitleCI(todos, owner, row.title)
                       /\ \A j \in 2..(k - 1) :
                              HasTitleCI(todos, owner,
                                         T \o <<" ", "(">> \o Decimal(j) \o <<")">>)
    ]_vars

\* C2, its case: three creates of one owner with titles equal
\* case-insensitively have stored "A", "a (2)" and now "A (3)".
C2_Witness ==
    /\ resp.op = "create" /\ resp.status = 201
    /\ resp.data[1].title = <<"A", " ", "(", "3", ")">>
    /\ \E s \in todos, t \in todos :
           /\ s.owner_id = resp.uid /\ s.title = <<"A">>
           /\ t.owner_id = resp.uid /\ t.title = <<"a", " ", "(", "2", ")">>

\* C3 as stated, with T itself among the owner's tasks: when the owner has a
\* task titled "T (2)", a create asking for T and a create asking for "T (2)"
\* both store "T (3)".
C3_Original ==
    [][Created =>
        \A T \in {<<"A">>, <<"a">>} :
            (/\ \E t \in todos : t.owner_id = resp'.uid /\ t.title = T
             /\ \E t \in todos : /\ t.owner_id = resp'.uid
                                 /\ t.title = T \o <<" ", "(", "2", ")">>
             /\ resp'.arg.title \in {T, T \o <<" ", "(", "2", ")">>})
            => resp'.data[1].title = T \o <<" ", "(", "3", ")">>
    ]_vars

\* C3, amended: no create stores a title the owner already has
\* (case-insensitively); when the owner has T and "T (2)" and no "T (3)", a
\* create asking for T stores "T (3)"; a create asking for "T (2)" gets the
\* suffix on the title it asked for and stores "T (2) (2)" when that is free.
C3_SuffixSearch ==
    [][Created =>
        LET owner == resp'.uid
            asked == resp'.arg.title
            stored == resp'.data[1].title
        IN  /\ ~HasTitleCI(todos, owner, stored)
            /\ \A T \in {<<"A">>, <<"a">>} :
                   (/\ HasTitleCI(todos, owner, T)
                    /\ HasTitleCI(todos, owner, T \o <<" ", "(", "2", ")">>))
                   => /\ (/\ asked = T
                          /\ ~HasTitleCI(todos, owner, T \o <<" ", "(", "3", ")">>))
                         => stored = T \o <<" ", "(", "3", ")">>
                      /\ (/\ asked = T \o <<" ", "(", "2", ")">>
                          /\ ~HasTitleCI(todos, owner,
                                 T \o <<" ", "(", "2", ")", " ", "(", "2", ")">>))
                         => stored = T \o <<" ", "(", "2", ")", " ", "(", "2", ")">>
    ]_vars

\* C3, its case: the owner has "A" and "A (2)", and the create that asked for
\* "A (2)" stored "A (2) (2)".
C3_Witness ==
    /\ resp.op = "create" /\ resp.status = 201
    /\ resp.arg.title = <<"A", " ", "(", "2", ")">>
    /\ resp.data[1].title = <<"A", " ", "(", "2", ")", " ", "(", "2", ")">>
    /\ \E s \in todos, t \in todos :
           /\ s.owner_id = resp.uid /\ s.title = <<"A">>
           /\ t.owner_id = resp.uid /\ t.title = <<"A", " ", "(", "2", ")">>

\* C4 as stated: an owner whose one task is titled "A" asks for "a" and the
\* new task is stored as "A (2)", the existing spelling with the suffix.
C4_Original ==
    [][(/\ Created
        /\ resp'.arg.title = <<"a">>
        /\ {t.title : t \in {x \in todos : x.owner_id = resp'.uid}} = {<<"A">>})
       => resp'.data[1].title = <<"A", " ", "(", "2", ")">>
    ]_vars

\* C4, amended: an owner who has a task titled "A" (and none equal to
\* "a (2)") asks for "a" and the new task is stored as "a (2)": the suffix is
\* appended to the spelling asked for.
C4_SuffixOnRequestedSpelling ==
    [][(/\ Created
        /\ resp'.arg.title = <<"a">>
        /\ \E t \in todos : t.owner_id = resp'.uid /\ t.title = <<"A">>
        /\ ~HasTitleCI(todos, resp'.uid, <<"a", " ", "(", "2", ")">>))
       => resp'.data[1].title = <<"a", " ", "(", "2", ")">>
    ]_vars

\* C4, its case: the owner has "A" and "a (2)", the latter just created on a
\* request for "a".
C4_Witness ==
    /\ resp.op = "create" /\ resp.status = 201
    /\ resp.arg.title = <<"a">>
    /\ resp.data[1].title = <<"a", " ", "(", "2", ")">>
    /\ \E t \in todos : t.owner_id = resp.uid /\ t.title = <<"A">>

\* C5: a get, update or delete by user U of an id that is not a task of U (a
\* task of another user, or no task) ends in 404, returns no row and leaves
\* every task as it was; a list by U holds only tasks of U.
C5_OwnerScoped ==
    [][(Handled /\ resp'.uid # NoUser) =>
        /\ (/\ resp'.op \in {"get", "update", "delete"}
            /\ ~\E t \in todos : t.id = resp'.id /\ t.owner_id = resp'.uid)
           => /\ resp'.status = 404
              /\ resp'.data = <<>>
              /\ todos' = todos
        /\ resp'.op = "list"
           => \A i \in 1..Len(resp'.data) :
                  /\ resp'.data[i].owner_id = resp'.uid
                  /\ resp'.data[i] \in todos
    ]_vars

\* C5, its case: the last request was by a user for the id of a task that
\* another user owns, and it was answered 404.
C5_Witness ==
    /\ resp.op \in {"get", "update", "delete"}
    /\ resp.uid # NoUser
    /\ resp.status = 404
    /\ \E t \in todos : t.id = resp.id /\ t.owner_id # resp.uid

\* C6: a successful account deletion is one whose password verified; it
\* removes the user and exactly the user's tasks, and from then on every task
\* has an existing owner; an id whose task is gone never comes back, and a get,
\* update or delete of such an id is answered 404; an account deletion with a
\* wrong password is answered 401 and removes no user and no task.
C6_AccountDeletionCascades ==
    [][/\ \A i \in 1..(next_todo_id - 1) :
              (~\E t \in todos : t.id = i) => (~\E t \in todos' : t.id = i)
       /\ \A t \in todos' : \E u \in users' : u.id = t.owner_id
       /\ (Handled /\ resp'.uid # NoUser) =>
             /\ (resp'.op = "delete_user" /\ resp'.status = 204)
                => /\ \E u \in users : /\ u.id = resp'.uid
                                       /\ u.hashed_password = <<"hash", resp'.arg>>
                   /\ ~\E u \in users' : u.id = resp'.uid
                   /\ todos' = {t \in todos : t.owner_id # resp'.uid}
             /\ (/\ resp'.op = "delete_user"
                 /\ \E u \in users : /\ u.id = resp'.uid
                                     /\ u.hashed_password # <<"hash", resp'.arg>>)
                => /\ resp'.status = 401
                   /\ users' = users
                   /\ todos' = todos
             /\ (/\ resp'.op \in {"get", "update", "delete"}
                 /\ ~\E t \in todos : t.id = resp'.id)
                => resp'.status = 404
    ]_vars

\* C6, its case: the account deletion just answered 204 removed tasks of the
\* deleted user, and tasks of another user are still there.
C6_Witness ==
    /\ resp.op = "delete_user" /\ resp.status = 204
    /\ resp.data # <<>>
    /\ \A i \in 1..Len(resp.data) : resp.data[i].owner_id = resp.uid
    /\ todos # {}

\* C7: in every reachable state each password-reset token belongs to an
\* existing user.
C7_ResetTokensHaveUsers ==
    \A r \in reset_tokens : \E u \in users : u.id = r.user_id

\* C8: a reset-confirm that succeeds sets the password and removes its token;
\* a token that was handed out and is gone never comes back; and a
\* reset-confirm with a token that is not in the store is answered 400
\* "Invalid or expired token" and changes no password.
C8_ResetTokenSingleUse ==
    [][/\ \A k \in 1..(next_token - 1) :
              (~\E r \in reset_tokens : r.token = k)
              => (~\E r \in reset_tokens' : r.token = k)
       /\ (Handled /\ resp'.op = "reset_confirm") =>
             /\ resp'.status = 204
                => /\ ~\E r \in reset_tokens' : r.token = resp'.id
                   /\ \E u \in users' : /\ u.id = resp'.uid
                                        /\ u.hashed_password = <<"hash", resp'.arg>>
             /\ (~\E r \in reset_tokens : r.token = resp'.id)
                => /\ resp'.status = 400
                   /\ resp'.msg = "Invalid or expired token"
                   /\ users' = users
    ]_vars

\* C8, its case: the clock has not moved, so no token has expired; token
\* resp.id was handed out and is gone, which only a successful reset-confirm
\* does; the reset-confirm just made with it was answered 400.
C8_Witness ==
    /\ resp.op = "reset_confirm" /\ resp.status = 400
    /\ resp.msg = "Invalid or expired token"
    /\ now = 0
    /\ resp.id < next_token
    /\ ~\E r \in reset_tokens : r.token = resp.id

\* C9: a reset-confirm with a token whose expiry is in the past is answered
\* 400 "Invalid or expired token", changes no password and removes that token;
\* one with a token that is not in the store is answered the same and changes
\* nothing.
C9_ExpiredTokenRejected ==
    [][(Handled /\ resp'.op = "reset_confirm") =>
        LET found == {r \in reset_tokens : r.token = resp'.id} IN
        /\ (\E r \in found : r.expires_at < now)
           => /\ resp'.status = 400
              /\ resp'.msg = "Invalid or expired token"
              /\ users' = users
              /\ reset_tokens' = reset_tokens \ found
        /\ found = {}
           => /\ resp'.status = 400
              /\ resp'.msg = "Invalid or expired token"
              /\ users' = users
              /\ reset_tokens' = reset_tokens
              /\ todos' = todos
    ]_vars

\* C9, its case: the reset-confirm just answered 400 found its token expired
\* and removed it.
C9_Witness ==
    /\ resp.op = "reset_confirm" /\ resp.status = 400
    /\ resp.data # <<>>
    /\ resp.data[1].token = resp.id
    /\ resp.data[1].expires_at < now
    /\ ~\E r \in reset_tokens : r.token = resp.id

\* the owner's tasks that the assistant's lookup of a title finds
Matching(owner, title) ==
    {t \in todos : t.owner_id = owner /\ EqCI(t.title, title)}

\* the answer lists every one of the tasks, quoted, after the title asked for,
\* and no task changes
Disambiguates(found) ==
    /\ resp'.msg = "Multiple todos found with a title similar to"
    /\ Len(resp'.titles) = 1 + Cardinality(found)
    /\ \A t \in found :
           \E i \in 2..Len(resp'.titles) : resp'.titles[i] = <<"'">> \o t.title \o <<"'">>
    /\ todos' = todos

ValidUpdateArgs(args) ==
    /\ "original_title" \in DOMAIN args
    /\ DOMAIN args # {"original_title"}
    /\ "priority" \in DOMAIN args => args.priority \in {"low", "medium", "high"}
    /\ "category" \in DOMAIN args
       => args.category \in {"work", "personal", "study", "home", "health",
                             "shopping", "others"}
    /\ "due_at" \in DOMAIN args => args.due_at = "in 1 hour"

\* C11: an assistant update_todo by an authenticated owner whose
\* original_title matches exactly one of the owner's tasks and which carries
\* valid fields to change applies them to that task, and answers "marked ...
\* as complete" when completed is the only field and "updated ... Changed
\* fields" otherwise.
C11_AssistantUpdateApplies ==
    [][(/\ Handled
        /\ resp'.op = "update_todo"
        /\ resp'.uid # NoUser
        /\ ValidUpdateArgs(resp'.arg)
        /\ Cardinality(Matching(resp'.uid, resp'.arg.original_title)) = 1)
       => \E t \in Matching(resp'.uid, resp'.arg.original_title) :
              \E u \in todos' :
                  /\ u.id = t.id
                  /\ "completed" \in DOMAIN resp'.arg
                     => u.completed = resp'.arg.completed
                  /\ "priority" \in DOMAIN resp'.arg
                     => u.priority = resp'.arg.priority
                  /\ resp'.msg = IF DOMAIN resp'.arg = {"original_title", "completed"}
                                 THEN "Successfully marked as complete"
                                 ELSE "Successfully updated"
    ]_vars

\* C12: an assistant create_todo of an authenticated user with a priority
\* outside {low, medium, high} or a category outside the seven allowed ones is
\* answered by a rejection text and leaves the store unchanged; one that gives
\* neither (and a title) creates one task of the caller with priority low and
\* category others.
C12_AssistantCreateValidates ==
    [][(/\ Handled
        /\ resp'.op = "create_todo"
        /\ resp'.uid # NoUser)
       => /\ (\/ /\ "priority" \in DOMAIN resp'.arg
                 /\ resp'.arg.priority \notin {"low", "medium", "high"}
              \/ /\ "category" \in DOMAIN resp'.arg
                 /\ resp'.arg.category \notin {"work", "personal", "study", "home",
                                               "health", "shopping", "others"})
             => /\ resp'.msg \in {"Invalid priority", "Invalid category"}
                /\ resp'.data = <<>>
                /\ todos' = todos
                /\ next_todo_id' = next_todo_id
          /\ (/\ DOMAIN resp'.arg = {"title"})
             => /\ resp'.msg = "Successfully created todo"
                /\ Len(resp'.data) = 1
                /\ resp'.data[1] \notin todos
                /\ todos' = todos \cup {resp'.data[1]}
                /\ resp'.data[1].owner_id = resp'.uid
                /\ resp'.data[1].priority = "low"
                /\ resp'.data[1].category = "others"
    ]_vars

\* C12, its case: the caller has a task, asked the assistant for one more with
\* category "invalid", and was answered by the rejection.
C12_Witness ==
    /\ resp.op = "create_todo"
    /\ resp.uid # NoUser
    /\ "category" \in DOMAIN resp.arg
    /\ resp.arg.category = "invalid"
    /\ resp.msg = "Invalid category"
    /\ \E t \in todos : t.owner_id = resp.uid

\* C13: an assistant delete_todo of an authenticated user removes a task only
\* when its title matches exactly one of the caller's tasks
\* case-insensitively: then exactly that task goes and the answer names its
\* title; with no match the answer is the not-found text, with two or more it
\* lists the matching titles, and in both the store is unchanged.
C13_AssistantDeleteResolves ==
    [][(/\ Handled
        /\ resp'.op = "delete_todo"
        /\ resp'.uid # NoUser
        /\ "title" \in DOMAIN resp'.arg)
       => LET found == Matching(resp'.uid, resp'.arg.title) IN
          /\ found = {}
             => /\ resp'.msg = "No todo found with title"
                /\ todos' = todos
          /\ Cardinality(found) >= 2
             => /\ resp'.msg = "Multiple todos found. Please provide the exact title"
                /\ Len(resp'.titles) = Cardinality(found)
                /\ \A t \in found :
                       \E i \in 1..Len(resp'.titles) :
                           resp'.titles[i] = <<"'">> \o t.title \o <<"'">>
                /\ todos' = todos
          /\ Cardinality(found) = 1
             => /\ resp'.msg = "Successfully deleted todo"
                /\ todos' = todos \ found
                /\ \A t \in found : resp'.titles = << <<"'">> \o t.title \o <<"'">> >>
    ]_vars

\* C13, its case: the assistant just deleted the one task matching "a" and the
\* caller's other task is still there.
C13_Witness ==
    /\ resp.op = "delete_todo"
    /\ resp.uid # NoUser
    /\ resp.msg = "Successfully deleted todo"
    /\ ~\E t \in todos : t.owner_id = resp.uid /\ EqCI(t.title, resp.arg.title)
    /\ \E t \in todos : t.owner_id = resp.uid

\* this step answers a dashboard request of an authenticated user
Dashboard ==
    Handled /\ resp'.op = "dashboard" /\ resp'.status = 200

\* the sum of the counts of the first n entries
RECURSIVE SumCounts(_, _)
SumCounts(entries, n) ==
    IF n = 0 THEN 0 ELSE SumCounts(entries, n - 1) + entries[n].count

\* C14: the dashboard's categories are exactly the six entries work, personal,
\* shopping, health, education, others, each counting the caller's tasks of
\* that category (0 when none); tasks of other categories are in no entry, and
\* the counts add up to at most stats.total.
C14_DashboardCategories ==
    [][Dashboard =>
        LET d == resp'.data[1]
            mine == {t \in todos : t.owner_id = resp'.uid}
        IN  /\ [i \in 1..Len(d.categories) |-> d.categories[i].category]
                   = <<"work", "personal", "shopping", "health", "education", "others">>
            /\ \A i \in 1..Len(d.categories) :
                   d.categories[i].count
                       = Cardinality({t \in mine : t.category = d.categories[i].category})
            /\ SumCounts(d.categories, Len(d.categories)) <= d.stats.total
            /\ d.stats.total = Cardinality(mine)
    ]_vars

\* C14, its case: the caller has a task of category study and one of category
\* work, another user has tasks too, and the dashboard just answered with
\* counts that add up to less than the total.
C14_Witness ==
    /\ resp.op = "dashboard" /\ resp.status = 200
    /\ \E t \in todos : t.owner_id = resp.uid /\ t.category = "study"
    /\ \E t \in todos : t.owner_id = resp.uid /\ t.category = "work"
    /\ \E t \in todos : t.owner_id # resp.uid
    /\ resp.data[1].categories[1].count = 1
    /\ SumCounts(resp.data[1].categories, 6) < resp.data[1].stats.total

\* C15: the dashboard's stats count the caller's tasks only: total, completed,
\* inProgress = total - completed, and overdue = the caller's tasks that are
\* not completed and have a due time before now.
C15_DashboardStats ==
    [][Dashboard =>
        LET st == resp'.data[1].stats
            mine == {t \in todos : t.owner_id = resp'.uid}
        IN  /\ st.total = Cardinality(mine)
            /\ st.completed = Cardinality({t \in mine : t.completed = TRUE})
            /\ st.in_progress = st.total - st.completed
            /\ st.overdue = Cardinality({t \in mine : /\ t.completed = FALSE
                                                      /\ t.due_at >= 0
                                                      /\ t.due_at < now})
    ]_vars

\* C15, its case: the caller has an overdue task, a completed task whose due
\* time has passed and a task with no due time; the dashboard just counted
\* one overdue.
C15_Witness ==
    /\ resp.op = "dashboard" /\ resp.status = 200
    /\ resp.data[1].stats.overdue = 1
    /\ \E t \in todos : t.owner_id = resp.uid /\ t.completed /\ t.due_at >= 0 /\ t.due_at < now
    /\ \E t \in todos : t.owner_id = resp.uid /\ ~t.completed /\ t.due_at < 0
    /\ \E t \in todos : t.owner_id = resp.uid /\ ~t.completed /\ t.due_at >= 0 /\ t.due_at < now

\* C16: within a chat turn the first model call (tool_choice auto) comes
\* first; when its reply asks for tools, exactly the first one is dispatched,
\* its result is appended as a tool message, and only then the second model
\* call (tool_choice none) is issued; when the reply asks for none, no tool is
\* dispatched and no second call is issued; at most one tool is dispatched
\* per turn, and a turn changes the store only in that dispatch.
C16_TurnOrder ==
    [][/\ chat'.model_calls \in {<<>>, <<"auto">>, <<"auto", "none">>}
       /\ Len(chat'.dispatched) <= 1
       /\ chat'.dispatched # chat.dispatched /\ chat'.dispatched # <<>>
          => /\ chat.model_calls = <<"auto">>
             /\ chat.dispatched = <<>>
             /\ chat.tool_calls # <<>>
             /\ chat'.dispatched = <<chat.tool_calls[1]>>
             /\ chat'.messages = chat.messages \o <<"tool">>
             /\ chat'.model_calls = chat.model_calls
       /\ (chat' # chat /\ (todos' # todos \/ next_todo_id' # next_todo_id))
          => chat'.dispatched # chat.dispatched /\ chat.dispatched = <<>>
       /\ chat'.model_calls = <<"auto", "none">> /\ chat.model_calls # chat'.model_calls
          => /\ chat.model_calls = <<"auto">>
             /\ Len(chat.dispatched) = 1
             /\ chat.messages[Len(chat.messages)] = "tool"
             /\ todos' = todos
       /\ chat'.tool_calls = <<>>
          => chat'.dispatched = <<>> /\ chat'.model_calls \in {<<>>, <<"auto">>}
       /\ (chat'.pc = "done" /\ chat.pc # "done" /\ resp'.status = 200
           /\ chat.tool_calls # <<>>)
          => /\ chat'.model_calls = <<"auto", "none">>
             /\ chat'.dispatched = <<chat.tool_calls[1]>>
    ]_vars

\* C16, its case: the reply asked for two tools, create first; the turn is
\* over, it dispatched the create alone and the task it made is in the store,
\* beside a task another request created during the turn.
C16_Witness ==
    /\ chat.pc = "done"
    /\ Len(chat.tool_calls) = 2
    /\ chat.dispatched = <<chat.tool_calls[1]>>
    /\ chat.dispatched[1].name = "create_todo"
    /\ chat.model_calls = <<"auto", "none">>
    /\ resp.op = "create_todo" /\ resp.msg = "Successfully created todo"
    /\ resp.data[1] \in todos
    /\ \E t \in todos : t.id > resp.data[1].id

\* C17: title allocation is check-then-act.  The check of a create picks the
\* requested title T when the owner has no task equal to T, else "T (k)" for
\* the smallest free k, over the store as it is then; the commit stores the
\* title the check picked, without looking again.  So when two creates of one
\* owner with case-insensitively equal titles both check before either
\* commits, the second commit leaves the owner with two tasks whose titles
\* are equal case-insensitively.
C17_CheckThenAct ==
    [][/\ \A r \in pending' \ pending :
              r.op = "create" =>
                  LET T == r.original_title IN
                  /\ ~HasTitleCI(todos, r.user_id, T) => r.todo.title = T
                  /\ HasTitleCI(todos, r.user_id, T) =>
                         \E k \in 2..(Cardinality(todos) + 2) :
                             /\ r.todo.title = T \o <<" ", "(">> \o Decimal(k) \o <<")">>
                             /\ ~HasTitleCI(todos, r.user_id, r.todo.title)
                             /\ \A j \in 2..(k - 1) :
                                    HasTitleCI(todos, r.user_id,
                                               T \o <<" ", "(">> \o Decimal(j) \o <<")">>)
       /\ \A r \in pending \ pending' :
              r.op = "create" =>
                  \E row \in todos' \ todos :
                      /\ todos' = todos \cup {row}
                      /\ row.owner_id = r.user_id
                      /\ row.title = r.todo.title
                      /\ HasTitleCI(todos, r.user_id, r.todo.title)
                         => \E other \in todos :
                                /\ other.owner_id = row.owner_id
                                /\ other.id # row.id
                                /\ EqCI(other.title, row.title)
    ]_vars

\* C17, its case: two creates of one owner asked for "A" and "a", both
\* checked before either committed, and the owner now has the tasks "A" and
\* "a".
C17_Witness ==
    /\ resp.op = "create" /\ resp.status = 201
    /\ Cardinality(todos) = 2
    /\ \E s \in todos, t \in todos :
           /\ s.owner_id = resp.uid /\ t.owner_id = resp.uid
           /\ s.title = <<"A">> /\ t.title = <<"a">>

\* C18: under every interleaving of signups and renamings no two users share
\* a username or an email, and a signup whose username or email a user
\* already has when it is answered (one that lost a race between its check
\* and its commit included) is answered 400, creates no user and hands out no
\* token.
C18_UniqueAccounts ==
    [][/\ \A u \in users', v \in users' :
              (u.username = v.username \/ u.email = v.email) => u = v
       /\ \A u \in users', v \in users' : u.id = v.id => u = v
       /\ (/\ Handled
           /\ resp'.op = "signup"
           /\ \E u \in users : u.username = resp'.arg[1] \/ u.email = resp'.arg[2])
          => /\ resp'.status = 400
             /\ users' = users
             /\ access_tokens' = access_tokens
    ]_vars

\* C18, its case: a signup passed its email check, another signup with the
\* same email committed first, and the first was answered 400 at its commit.
C18_Witness ==
    /\ resp.op = "signup" /\ resp.status = 400
    /\ resp.msg = "Username or email already registered"
    /\ \E u \in users : u.email = resp.arg[2] /\ u.username # resp.arg[1]
    /\ ~\E u \in users : u.username = resp.arg[1]

\* C19: in every reachable state every stored task's title is non-empty and
\* at most 255 characters long.
C19_TitleLength ==
    \A t \in todos : Len(t.title) >= 1 /\ Len(t.title) <= 255

\* C19, the part on suffixing alone: every stored title is at most 255
\* characters long.
C19_TitleAtMost255 ==
    \A t \in todos : Len(t.title) <= 255

\* C20: a login with identifier X and password P is answered 404 when no user
\* has username X or email X (the email text exactly when X contains "@"),
\* 401 when such a user exists and P does not verify against that user's
\* password, and otherwise 200 with a bearer token for that user; the users,
\* tasks and reset tokens are left as they were.
C20_LoginOutcomes ==
    [][(Handled /\ resp'.op = "login") =>
        LET X == resp'.arg[1]
            P == resp'.arg[2]
            found == {u \in users : u.username = X \/ u.email = X}
        IN  /\ found = {}
               => /\ resp'.status = 404
                  /\ resp'.msg = IF X \in {"alice@x.com", "bob@x.com"}
                                 THEN "Account with that email does not exist"
                                 ELSE "Account with that username does not exist"
            /\ (\E u \in found : u.hashed_password # <<"hash", P>>)
               => resp'.status = 401
            /\ (found # {} /\ \A u \in found : u.hashed_password = <<"hash", P>>)
               => /\ resp'.status = 200
                  /\ \E u \in found :
                         /\ resp'.uid = u.id
                         /\ [sub |-> u.username, issued_to |-> u.id] \in access_tokens'
            /\ users' = users
            /\ todos' = todos
            /\ reset_tokens' = reset_tokens
    ]_vars

\* C20 for the identifiers that name one user: the three outcomes as stated.
C20_LoginOutcomesOneUser ==
    [][(Handled /\ resp'.op = "login") =>
        LET X == resp'.arg[1]
            P == resp'.arg[2]
            found == {u \in users : u.username = X \/ u.email = X}
        IN  /\ found = {} => resp'.status = 404
            /\ \A u \in found :
                   found = {u} =>
                       IF u.hashed_password = <<"hash", P>>
                       THEN /\ resp'.status = 200
                            /\ resp'.uid = u.id
                            /\ [sub |-> u.username, issued_to |-> u.id] \in access_tokens'
                       ELSE resp'.status = 401
            /\ users' = users
            /\ todos' = todos
            /\ reset_tokens' = reset_tokens
    ]_vars

C22_TokenResolvesToItsUser ==
    \A t \in access_tokens :
        \A u \in users :
            u.username = t.sub => u.id = t.issued_to

\* C23: once a successful reset-confirm has changed a user's password, none
\* of the reset tokens issued to that user before can change it again: the
\* step that consumes one token leaves no other token of the user that is
\* stored and not yet expired.
C23_ResetRevokesOtherTokens ==
    [][(Handled /\ resp'.op = "reset_confirm" /\ resp'.status = 204) =>
        \A r \in reset_tokens' :
            ~(r.user_id = resp'.uid /\ r.expires_at >= now')
    ]_vars

====
